---- MODULE Spec2Model ----
(***************************************************************************)
(* Model of fishing_alert.py: window generation, condition scoring, window *)
(* selection and the per-day, per-band notification gate of main().        *)
(*                                                                         *)
(* Units.  Instants are minutes since 00:00 UTC of day 0.  Temperatures,   *)
(* wind speeds (m/s), wave heights, wave periods and pressures are in      *)
(* tenths of their unit.  A wind speed in knots is kept multiplied by      *)
(* KtScale: wind_kt = tenths of m/s * KtFactor = knots * 10^6, so 18 kt    *)
(* is 18 * KtScale.                                                        *)
(*                                                                         *)
(* Pressures are binary floating-point numbers in the source, and the      *)
(* pressure trend is a difference of two of them compared with -1.0 and    *)
(* 1.0, so the rounding of the operands decides the comparison when the    *)
(* readings differ by exactly 1.0 hPa.  A reading is 0 (falsy) or lies in  *)
(* [512.0, 2048.0) hPa; FloatError gives the rounding error of its double  *)
(* in fifths of 2^-43 hPa.  A trend is kept as                             *)
(*   (difference in tenths) * TrendScale + (difference of the errors),     *)
(* which orders trends as the source's floats are ordered: the errors are  *)
(* below one tenth by far, and -1.0 and 1.0 are -10 and 10 * TrendScale.   *)
(*                                                                         *)
(* The state document is the set of <<day, band>> pairs that the JSON      *)
(* object maps to true; the file holding it is absent, malformed (not      *)
(* JSON) or holds such a document.                                         *)
(***************************************************************************)
EXTENDS Integers, Sequences, FiniteSets, TLC

\* ------------------------------------------------------------------ bounds
NumRuns == 2
MaxTicks == 1
TickMinutes == 720
StartMinute == 1020

\* -------------------------------------------------------- program constants
Day == 24 * 60
FloodMinutes == 2 * 60
TwilightMinutes == 30
HorizonMinutes == 24 * 60
KtFactor == 194384
KtScale == 10 ^ 6
TrendScale == 100
DefaultSst == 120
DefaultWind == 60
DefaultWindDir == 225
DefaultWave == 12
DefaultWavep == 90
FallbackMorning == 6 * 60
FallbackEvening == 18 * 60

None == <<>>
Bands == {"green", "amber"}

Abs(x) == IF x < 0 THEN -x ELSE x
Max2(a, b) == IF a >= b THEN a ELSE b
Min2(a, b) == IF a <= b THEN a ELSE b
DateOf(t) == t \div Day

\* -------------------------------------------------------- scoring helpers
BassSstTop(c) == IF c >= 130 THEN 3 ELSE IF 120 <= c /\ c < 130 THEN 1 ELSE 0
bass_sst_score(c) == IF c >= 130 THEN 2 ELSE IF 120 <= c /\ c < 130 THEN 1 ELSE 0

cod_sst_score(c) ==
    IF 80 <= c /\ c <= 105 THEN 2 ELSE IF 110 <= c /\ c <= 125 THEN 1 ELSE 0

wind_swell_ok(wind_kt, swell_m) ==
    IF swell_m <= 16 /\ wind_kt <= 18 * KtScale THEN 2
    ELSE IF swell_m <= 22 /\ wind_kt <= 24 * KtScale THEN 1 ELSE 0

pressure_trend_score(trend_hpa) ==
    IF trend_hpa < -10 * TrendScale THEN 2
    ELSE IF Abs(trend_hpa) <= 10 * TrendScale THEN 1 ELSE 0

label_from_score(x) ==
    IF x >= 10 THEN "GREEN"
    ELSE IF 7 <= x /\ x <= 9 THEN "AMBER"
    ELSE IF 4 <= x /\ x <= 6 THEN "AMBER-" ELSE "RED"

\* ------------------------------------------------------------------ util
overlaps(a_start, a_end, b_start, b_end) ==
    Max2(a_start, b_start) < Min2(a_end, b_end)

pick_flood_windows(high_tides) ==
    [i \in 1..Len(high_tides) |-> <<high_tides[i] - FloodMinutes, high_tides[i]>>]

\* civil_twilight_for_day: tw is None when the request failed, else
\* <<sunrise, sunset>> as minutes after midnight of that day.
civil_twilight_for_day(day, tw) ==
    IF tw = None THEN None
    ELSE << <<day * Day + tw[1] - TwilightMinutes, day * Day + tw[1] + TwilightMinutes>>,
            <<day * Day + tw[2] - TwilightMinutes, day * Day + tw[2] + TwilightMinutes>> >>

\* Fallback tides (06:00 and 18:00 of today and tomorrow) when none fetched.
FallbackHighs(nowT) ==
    LET d == DateOf(nowT) IN
    << d * Day + FallbackMorning, d * Day + FallbackEvening,
       (d + 1) * Day + FallbackMorning, (d + 1) * Day + FallbackEvening >>

EffectiveHighs(nowT, highs) == IF highs = <<>> THEN FallbackHighs(nowT) ELSE highs

\* The label given to a flood window by the twilight windows of its day.
WindowLabel(fw, dd) ==
    LET atDawn == overlaps(fw[1], fw[2], dd[1][1], dd[1][2])
        atDusk == overlaps(fw[1], fw[2], dd[2][1], dd[2][2])
    IN IF atDawn THEN "dawn" ELSE IF atDusk THEN "dusk" ELSE "none"

CandidateOf(fw, label) == <<fw[1], fw[2], label>>

\* The inner loop of "Build candidate windows" for one day.
WindowsForDay(day, tw, flood_windows, nowT) ==
    LET dd == civil_twilight_for_day(day, tw)
        Keep(fw) == /\ DateOf(fw[1]) = day
                    /\ WindowLabel(fw, dd) # "none"
                    /\ ~(fw[2] < nowT \/ fw[1] > nowT + HorizonMinutes)
        kept == SelectSeq(flood_windows, Keep)
    IN IF dd = None THEN <<>>
       ELSE [i \in 1..Len(kept) |-> CandidateOf(kept[i], WindowLabel(kept[i], dd))]

\* dayOrder is the iteration order of the set {today, tomorrow}; twOf maps
\* each of the two days to the twilight collaborator's answer.
BuildWindows(nowT, highs, twOf, dayOrder) ==
    LET fws == pick_flood_windows(EffectiveHighs(nowT, highs)) IN
    WindowsForDay(dayOrder[1], twOf[dayOrder[1]], fws, nowT)
      \o WindowsForDay(dayOrder[2], twOf[dayOrder[2]], fws, nowT)

\* ---------------------------------------------------------------- scoring
\* The double nearest to p / 10 is p / 10 plus FloatError(p) fifths of
\* 2^-43.  Its spacing is 2^-43 in [512, 1024) and 2^-42 in [1024, 2048);
\* 2^42 = 4 and 2^41 = 2 modulo 5, so rem fifths of a spacing lie between
\* p / 10 and the double below it, and the nearer of the two doubles is taken.
RoundingFifths(rem) == IF rem <= 2 THEN -rem ELSE 5 - rem

FloatError(p) ==
    IF p < 10240 THEN RoundingFifths((4 * p) % 5)
    ELSE 2 * RoundingFifths((2 * p) % 5)

\* p_now - p_prev of two doubles: exact for readings within a factor of two
\* of each other.
FloatDifference(p_now, p_prev) ==
    (p_now - p_prev) * TrendScale + (FloatError(p_now) - FloatError(p_prev))

\* Pressure trend: psl[-1] - psl[len // 2], 0.0 when either is falsy or the
\* series is empty (the bare except).
PressureTrend(psl) ==
    IF psl = <<>> THEN 0
    ELSE LET p_now == psl[Len(psl)]
             p_prev == psl[(Len(psl) \div 2) + 1]
         IN IF p_now # 0 /\ p_prev # 0 THEN FloatDifference(p_now, p_prev) ELSE 0

\* min(range(len(hours)), key=...): the first index of a nearest timestamp
\* (1-based); defined for a non-empty series only.
NearestIdx(hours, mid) ==
    CHOOSE i \in 1..Len(hours) :
        /\ \A j \in 1..Len(hours) : Abs(hours[i] - mid) <= Abs(hours[j] - mid)
        /\ \A j \in 1..(i - 1) : Abs(hours[j] - mid) > Abs(hours[i] - mid)

ValueAt(series, idx, default) == IF idx <= Len(series) THEN series[idx] ELSE default

ScoreWindow(w, met, p_trend) ==
    LET mid == w[1] + (w[2] - w[1]) \div 2
        idx == NearestIdx(met.time, mid)
        val_sst == ValueAt(met.sst, idx, DefaultSst)
        val_wind == ValueAt(met.wind, idx, DefaultWind)
        val_wind_dir == ValueAt(met.wind_dir, idx, DefaultWindDir)
        val_wave == ValueAt(met.waveh, idx, DefaultWave)
        val_wavep == ValueAt(met.wavep, idx, DefaultWavep)
        wind_kt == val_wind * KtFactor
        b == bass_sst_score(val_sst) + 2 + wind_swell_ok(wind_kt, val_wave)
               + pressure_trend_score(p_trend) + 1
        c == cod_sst_score(val_sst)
               + (IF 8 <= val_wave /\ val_wave <= 18 THEN 2
                  ELSE IF val_wave > 18 THEN 1 ELSE 0)
               + 2 + pressure_trend_score(p_trend) + 1
    IN [start |-> w[1], end |-> w[2], label |-> w[3],
        sst |-> val_sst, wind_kt |-> wind_kt, wind_dir |-> val_wind_dir,
        wave_m |-> val_wave, wavep |-> val_wavep, bass |-> b, cod |-> c]

\* The scoring loop raises ValueError (min of an empty range) as soon as it
\* scores a window against an empty hours series.
ScoringRaises(windows, met) == windows # <<>> /\ met.time = <<>>

ScoreAll(windows, met) ==
    [i \in 1..Len(windows) |-> ScoreWindow(windows[i], met, PressureTrend(met.psl))]

\* -------------------------------------------------------------- selection
best_score(rec) == Max2(rec.bass, rec.cod)

Greens(scored) == SelectSeq(scored, LAMBDA r : best_score(r) >= 10)
Ambers(scored) == SelectSeq(scored, LAMBDA r : 7 <= best_score(r) /\ best_score(r) <= 9)

\* key=lambda r: (-best_score(r), r["start"]), compared as tuples
KeyLess(a, b) ==
    \/ -best_score(a) < -best_score(b)
    \/ (best_score(a) = best_score(b) /\ a.start < b.start)

\* sorted(lst, key=...) is a stable sort: an element is placed before the
\* first element whose key is strictly greater.
RECURSIVE InsertByKey(_, _)
InsertByKey(r, s) ==
    IF s = <<>> THEN <<r>>
    ELSE IF KeyLess(r, Head(s)) THEN <<r>> \o s
    ELSE <<Head(s)>> \o InsertByKey(r, Tail(s))

RECURSIVE SortedByKey(_)
SortedByKey(lst) ==
    IF lst = <<>> THEN <<>>
    ELSE InsertByKey(lst[Len(lst)], SortedByKey(SubSeq(lst, 1, Len(lst) - 1)))

\* An optional record is a sequence of at most one record; None is <<>>.
PickFirstListed(lst) == IF lst = <<>> THEN None ELSE <<lst[1]>>
pick_best(lst) == IF lst = <<>> THEN None ELSE <<SortedByKey(lst)[1]>>

\* ------------------------------------------------------------ collaborators
\* Answers of the daylight collaborator for one day: failure, or
\* <<sunrise, sunset>> in minutes after midnight.
TwilightChoices == {None, <<360, 1080>>, <<450, 1170>>}

\* Answers of the tide collaborator (sorted highs of today and tomorrow);
\* <<>> is a missing key, a failed request or no high extreme.
HighsChoices(base) == {<<>>, <<base + 450, base + 1170, base + 1890>>}

\* One hourly sample: sst, wind, wind direction, wave height, wave period.
Warm == [sst |-> 135, wind |-> 50, wind_dir |-> 180, waveh |-> 10, wavep |-> 80]
Cool == [sst |-> 90, wind |-> 50, wind_dir |-> 270, waveh |-> 10, wavep |-> 100]
Mild == [sst |-> 125, wind |-> 110, wind_dir |-> 0, waveh |-> 20, wavep |-> 70]
Rough == [sst |-> 50, wind |-> 200, wind_dir |-> 315, waveh |-> 5, wavep |-> 40]

SampleTimes(base) == <<base + 360, base + 1080, base + 1800, base + 2520>>

Falling == <<10150, 10150, 10150, 10135>>
Steady == <<10150, 10150, 10150, 10150>>
Rising == <<10120, 10120, 10120, 10150>>
Gappy == <<10150, 10150, 10150, 0>>
\* Readings 1.0 hPa apart whose doubles are more than 1.0 apart.
Slipping == <<10244, 10244, 10244, 10234>>
Creeping == <<10234, 10234, 10234, 10244>>

\* The "hourly" object of the forecast answer: parallel arrays, each cut to
\* its own length (a provider may return shorter arrays).
MkForecast(base, samples, psl, nTime, nVal) ==
    [time     |-> SubSeq(SampleTimes(base), 1, nTime),
     sst      |-> [i \in 1..nVal |-> samples[i].sst],
     wind     |-> [i \in 1..nVal |-> samples[i].wind],
     wind_dir |-> [i \in 1..nVal |-> samples[i].wind_dir],
     waveh    |-> [i \in 1..nVal |-> samples[i].waveh],
     wavep    |-> [i \in 1..nVal |-> samples[i].wavep],
     psl      |-> SubSeq(psl, 1, nVal)]

EmptyForecast ==
    [time |-> <<>>, sst |-> <<>>, wind |-> <<>>, wind_dir |-> <<>>,
     waveh |-> <<>>, wavep |-> <<>>, psl |-> <<>>]

ForecastChoices(base) ==
    { EmptyForecast,
      MkForecast(base, <<Warm, Warm, Warm, Warm>>, Falling, 4, 4),
      MkForecast(base, <<Mild, Warm, Cool, Warm>>, Falling, 4, 4),
      MkForecast(base, <<Cool, Warm, Rough, Mild>>, Steady, 4, 4),
      MkForecast(base, <<Rough, Rough, Warm, Cool>>, Rising, 4, 4),
      MkForecast(base, <<Warm, Cool, Mild, Rough>>, Gappy, 4, 4),
      MkForecast(base, <<Rough, Cool, Mild, Warm>>, Steady, 4, 1),
      MkForecast(base, <<Warm, Warm, Cool, Cool>>, Slipping, 4, 4),
      MkForecast(base, <<Warm, Warm, Cool, Cool>>, Creeping, 4, 4) }

\* The answers used where several invocations are modelled: a forecast that
\* fails or succeeds, no tide key (the fallback tides), daylight known.
ForecastCore(base) ==
    { EmptyForecast, MkForecast(base, <<Warm, Warm, Warm, Warm>>, Falling, 4, 4) }
HighsCore(base) == {<<>>}
TwilightCore == {<<360, 1080>>}

\* The collaborators' possible answers: every one ("all") or the core ones.
Forecasts(answers, base) ==
    IF answers = "all" THEN ForecastChoices(base) ELSE ForecastCore(base)
Highs(answers, base) ==
    IF answers = "all" THEN HighsChoices(base) ELSE HighsCore(base)
Twilights(answers) == IF answers = "all" THEN TwilightChoices ELSE TwilightCore

\* ------------------------------------------------------------- persistence
Runs == 1..NumRuns

AbsentFile == [kind |-> "absent", doc |-> {}]
MalformedFile == [kind |-> "malformed", doc |-> {}]
DocFile(st) == [kind |-> "doc", doc |-> st]

\* json.loads of the state file; a missing or unparsable file gives {}.
LoadDoc(f) == IF f.kind = "doc" THEN f.doc ELSE {}

\* state.get(today, {}).get(band, False)
SentToday(st, day, band) == <<day, band>> \in st

MarkRegardless(st, upd, day, band, ok) ==
    [state |-> st \cup {<<day, band>>}, updated |-> TRUE]
\* "if send_push(...): state.setdefault(today, {})[band] = True;
\* updated = True": the document and the flag after a dispatch.
AfterDispatch(st, upd, day, band, ok) ==
    IF ok THEN [state |-> st \cup {<<day, band>>}, updated |-> TRUE]
    ELSE [state |-> st, updated |-> upd]

\* send_push: False without credentials, else the outcome of the request.
send_push(hasCredentials, httpOk) == IF ~hasCredentials THEN FALSE ELSE httpOk

DueWheneverPicked(pick, alreadySent) == pick # None
\* "if pick_x and not sent_x_today"
DispatchDue(pick, alreadySent) == pick # None /\ ~alreadySent

VARIABLES
    now,               \* the UTC clock, in minutes
    ticks,             \* number of clock advances so far
    configured,        \* PUSHOVER_TOKEN and PUSHOVER_USER are both set
    file,              \* state.json
    lock,              \* holder of state.json.lock, 0 when free
    pc,                \* position of each invocation of main
    state,             \* main's local: state
    today,             \* main's local: today (a day number)
    sent_green_today,  \* main's local
    sent_amber_today,  \* main's local
    met,               \* main's local: met["hourly"]
    highs,             \* main's local: the fetched high tides
    flood_windows,     \* main's local
    twilight,          \* the (dawn, dusk) pair, or None, of each day looked up
    windows,           \* main's local
    scored,            \* main's local
    pick_green,        \* main's local
    pick_amber,        \* main's local
    updated,           \* main's local
    pushlog            \* the send_push calls of each invocation, in order

vars == <<now, ticks, configured, file, lock, pc, state, today,
          sent_green_today, sent_amber_today, met, highs, flood_windows, twilight,
          windows, scored,
          pick_green, pick_amber, updated, pushlog>>

clockVars == <<now, ticks>>
evalVars == <<met, highs, flood_windows, twilight, windows, scored,
              pick_green, pick_amber>>
gateVars == <<state, today, sent_green_today, sent_amber_today, updated>>

TypeOK ==
    /\ now \in Nat /\ ticks \in 0..MaxTicks /\ configured \in BOOLEAN
    /\ lock \in 0..NumRuns
    /\ pc \in [Runs -> {"idle", "loaded", "fetch", "tides", "fetched", "gate", "green", "amber",
                        "save", "done", "crashed"}]
    /\ today \in [Runs -> Nat]
    /\ updated \in [Runs -> BOOLEAN]

Init ==
    /\ now = StartMinute
    /\ ticks = 0
    /\ configured \in BOOLEAN
    /\ file = AbsentFile
    /\ lock = 0
    /\ pc = [r \in Runs |-> "idle"]
    /\ state = [r \in Runs |-> {}]
    /\ today = [r \in Runs |-> 0]
    /\ sent_green_today = [r \in Runs |-> FALSE]
    /\ sent_amber_today = [r \in Runs |-> FALSE]
    /\ met = [r \in Runs |-> EmptyForecast]
    /\ highs = [r \in Runs |-> <<>>]
    /\ flood_windows = [r \in Runs |-> <<>>]
    /\ twilight = [r \in Runs |-> <<>>]
    /\ windows = [r \in Runs |-> <<>>]
    /\ scored = [r \in Runs |-> <<>>]
    /\ pick_green = [r \in Runs |-> None]
    /\ pick_amber = [r \in Runs |-> None]
    /\ updated = [r \in Runs |-> FALSE]
    /\ pushlog = [r \in Runs |-> <<>>]

\* Time passes.
Tick ==
    /\ ticks < MaxTicks
    /\ now' = now + TickMinutes
    /\ ticks' = ticks + 1
    /\ UNCHANGED <<configured, file, lock, pc, pushlog>>
    /\ UNCHANGED evalVars /\ UNCHANGED gateVars

\* Lines 159-169: the first critical section, which only reads the file.
\* Invocations are numbered in the order in which they start.
LoadState(r) ==
    /\ pc[r] = "idle"
    /\ \A q \in 1..(r - 1) : pc[q] # "idle"
    /\ lock = 0
    /\ state' = [state EXCEPT ![r] = LoadDoc(file)]
    /\ pc' = [pc EXCEPT ![r] = "loaded"]
    /\ UNCHANGED <<configured, file, lock, pushlog, today, sent_green_today,
                   sent_amber_today, updated>>
    /\ UNCHANGED clockVars /\ UNCHANGED evalVars

\* Lines 171-173.
ReadToday(r) ==
    /\ pc[r] = "loaded"
    /\ today' = [today EXCEPT ![r] = DateOf(now)]
    /\ sent_green_today' =
         [sent_green_today EXCEPT ![r] = SentToday(state[r], DateOf(now), "green")]
    /\ sent_amber_today' =
         [sent_amber_today EXCEPT ![r] = SentToday(state[r], DateOf(now), "amber")]
    /\ pc' = [pc EXCEPT ![r] = "fetch"]
    /\ UNCHANGED <<configured, file, lock, pushlog, state, updated>>
    /\ UNCHANGED clockVars /\ UNCHANGED evalVars

\* main's locals state, today, sent_*_today and updated end with the call.
ForgetGate(r) ==
    /\ state' = [state EXCEPT ![r] = {}]
    /\ today' = [today EXCEPT ![r] = 0]
    /\ sent_green_today' = [sent_green_today EXCEPT ![r] = FALSE]
    /\ sent_amber_today' = [sent_amber_today EXCEPT ![r] = FALSE]
    /\ updated' = [updated EXCEPT ![r] = FALSE]

SetLocals(r, m, hs, fws, tws, ws, sc, pg, pa) ==
    /\ met' = [met EXCEPT ![r] = m]
    /\ highs' = [highs EXCEPT ![r] = hs]
    /\ flood_windows' = [flood_windows EXCEPT ![r] = fws]
    /\ twilight' = [twilight EXCEPT ![r] = tws]
    /\ windows' = [windows EXCEPT ![r] = ws]
    /\ scored' = [scored EXCEPT ![r] = sc]
    /\ pick_green' = [pick_green EXCEPT ![r] = pg]
    /\ pick_amber' = [pick_amber EXCEPT ![r] = pa]

\* Line 176: fetch_openmeteo reads the clock (line 55) for the first date
\* of the forecast it requests, then waits for the answer (line 64).
FetchForecast(r, answers) ==
    /\ pc[r] = "fetch"
    /\ \E m \in Forecasts(answers, DateOf(now) * Day) :
          met' = [met EXCEPT ![r] = m]
    /\ pc' = [pc EXCEPT ![r] = "tides"]
    /\ UNCHANGED <<configured, file, lock, pushlog, highs, flood_windows,
                   twilight, windows, scored, pick_green, pick_amber>>
    /\ UNCHANGED clockVars /\ UNCHANGED gateVars

\* Line 177: fetch_worldtides_extremes asks for the tides of two days (line
\* 77); the answer is for the day on which this request is made.
FetchTides(r, answers) ==
    /\ pc[r] = "tides"
    /\ \E hs \in Highs(answers, DateOf(now) * Day) :
          highs' = [highs EXCEPT ![r] = hs]
    /\ pc' = [pc EXCEPT ![r] = "fetched"]
    /\ UNCHANGED <<configured, file, lock, pushlog, met, flood_windows,
                   twilight, windows, scored, pick_green, pick_amber>>
    /\ UNCHANGED clockVars /\ UNCHANGED gateVars

\* Lines 179-271: read the clock again (line 189), build the candidate
\* windows, score them and select one window per band.  The run ends here
\* when scoring raises or when no window qualifies (return 0 at line 258,
\* where the locals end).
Evaluate(r, answers) ==
    /\ pc[r] = "fetched"
    /\ LET d == DateOf(now)
           m == met[r]
           hs == highs[r]
       IN \E tw0 \in Twilights(answers), tw1 \in Twilights(answers),
             dayOrder \in {<<d, d + 1>>, <<d + 1, d>>} :
          LET twOf == [x \in {d, d + 1} |-> IF x = d THEN tw0 ELSE tw1]
              ws == BuildWindows(now, hs, twOf, dayOrder)
              fws == pick_flood_windows(EffectiveHighs(now, hs))
              tws == [x \in {d, d + 1} |-> civil_twilight_for_day(x, twOf[x])]
          IN IF ScoringRaises(ws, m)
             THEN /\ pc' = [pc EXCEPT ![r] = "crashed"]
                  /\ SetLocals(r, m, hs, fws, tws, ws, <<>>, None, None)
                  /\ ForgetGate(r)
             ELSE IF ScoreAll(ws, m) = <<>>
             THEN /\ pc' = [pc EXCEPT ![r] = "done"]
                  /\ SetLocals(r, EmptyForecast, <<>>, <<>>, <<>>, <<>>, <<>>,
                               None, None)
                  /\ ForgetGate(r)
             ELSE LET sc == ScoreAll(ws, m) IN
                  /\ pc' = [pc EXCEPT ![r] = "gate"]
                  /\ SetLocals(r, m, hs, fws, tws, ws, sc,
                               pick_best(Greens(sc)), pick_best(Ambers(sc)))
                  /\ UNCHANGED gateVars
    /\ UNCHANGED <<configured, file, lock, pushlog>>
    /\ UNCHANGED clockVars

\* Line 274: the second critical section begins.  From here on main uses
\* only state, today, the sent flags and the two picks.
AcquireLock(r) ==
    /\ pc[r] = "gate"
    /\ lock = 0
    /\ lock' = r
    /\ pc' = [pc EXCEPT ![r] = "green"]
    /\ met' = [met EXCEPT ![r] = EmptyForecast]
    /\ highs' = [highs EXCEPT ![r] = <<>>]
    /\ flood_windows' = [flood_windows EXCEPT ![r] = <<>>]
    /\ twilight' = [twilight EXCEPT ![r] = <<>>]
    /\ windows' = [windows EXCEPT ![r] = <<>>]
    /\ scored' = [scored EXCEPT ![r] = <<>>]
    /\ UNCHANGED <<configured, file, pushlog, pick_green, pick_amber>>
    /\ UNCHANGED clockVars /\ UNCHANGED gateVars

\* Lines 275-278 (band "green") and 279-282 (band "amber").
Dispatch(r, band, pick, alreadySent, nextPc) ==
    /\ IF DispatchDue(pick, alreadySent)
       THEN \E httpOk \in BOOLEAN :
              LET ok == send_push(configured, httpOk) IN
              /\ pushlog' = [pushlog EXCEPT ![r] =
                    Append(@, [day |-> today[r], band |-> band, ok |-> ok])]
              /\ state' = [state EXCEPT ![r] =
                    AfterDispatch(state[r], updated[r], today[r], band, ok).state]
              /\ updated' = [updated EXCEPT ![r] =
                    AfterDispatch(state[r], updated[r], today[r], band, ok).updated]
       ELSE UNCHANGED <<pushlog, state, updated>>
    /\ pc' = [pc EXCEPT ![r] = nextPc]
    /\ UNCHANGED <<configured, file, lock, today, sent_green_today, sent_amber_today>>
    /\ UNCHANGED clockVars /\ UNCHANGED evalVars

DispatchGreen(r) ==
    /\ pc[r] = "green"
    /\ Dispatch(r, "green", pick_green[r], sent_green_today[r], "amber")

DispatchAmber(r) ==
    /\ pc[r] = "amber"
    /\ Dispatch(r, "amber", pick_amber[r], sent_amber_today[r], "save")

\* What state.json holds after write_text: the document, or, when OSError is
\* raised, the old content (open failed) or a truncated file.
WriteOutcomes(f, st) == {DocFile(st), f, MalformedFile}
\* write_text when the file system does not fail.
WriteSucceeds(f, st) == {DocFile(st)}
Written(disk, f, st) ==
    IF disk = "reliable" THEN WriteSucceeds(f, st) ELSE WriteOutcomes(f, st)

SavedRegardless(f, upd, written) == written
\* "if updated: state_path.write_text(...)": the possible file contents
\* at the end of the critical section, written being those after a write.
Saved(f, upd, written) == IF upd THEN written ELSE {f}

\* Lines 284-296: write the document when updated, leave the critical
\* section and return 0.
SaveState(r, disk) ==
    /\ pc[r] = "save"
    /\ file' \in Saved(file, updated[r], Written(disk, file, state[r]))
    /\ lock' = 0
    /\ pc' = [pc EXCEPT ![r] = "done"]
    /\ pick_green' = [pick_green EXCEPT ![r] = None]
    /\ pick_amber' = [pick_amber EXCEPT ![r] = None]
    /\ ForgetGate(r)
    /\ UNCHANGED <<configured, pushlog, met, highs, flood_windows, twilight,
                   windows, scored>>
    /\ UNCHANGED clockVars

Next ==
    \/ Tick
    \/ \E r \in Runs : LoadState(r)
    \/ \E r \in Runs : ReadToday(r)
    \/ \E r \in Runs : FetchForecast(r, "core")
    \/ \E r \in Runs : FetchTides(r, "core")
    \/ \E r \in Runs : Evaluate(r, "core")
    \/ \E r \in Runs : AcquireLock(r)
    \/ \E r \in Runs : DispatchGreen(r)
    \/ \E r \in Runs : DispatchAmber(r)
    \/ \E r \in Runs : SaveState(r, "failing")

Spec == Init /\ [][Next]_vars

\* Invocations that do not overlap: one starts only when no other is
\* between its first and its last line.
NoneActive == \A q \in Runs : pc[q] \in {"idle", "done", "crashed"}

NextSeq ==
    \/ Tick
    \/ \E r \in Runs : NoneActive /\ LoadState(r)
    \/ \E r \in Runs : ReadToday(r)
    \/ \E r \in Runs : FetchForecast(r, "core")
    \/ \E r \in Runs : FetchTides(r, "core")
    \/ \E r \in Runs : Evaluate(r, "core")
    \/ \E r \in Runs : AcquireLock(r)
    \/ \E r \in Runs : DispatchGreen(r)
    \/ \E r \in Runs : DispatchAmber(r)
    \/ \E r \in Runs : SaveState(r, "failing")

SpecSeq == Init /\ [][NextSeq]_vars

\* Overlapping invocations on a file system that never fails a write.
NextRace ==
    \/ Tick
    \/ \E r \in Runs : LoadState(r)
    \/ \E r \in Runs : ReadToday(r)
    \/ \E r \in Runs : FetchForecast(r, "core")
    \/ \E r \in Runs : FetchTides(r, "core")
    \/ \E r \in Runs : Evaluate(r, "core")
    \/ \E r \in Runs : AcquireLock(r)
    \/ \E r \in Runs : DispatchGreen(r)
    \/ \E r \in Runs : DispatchAmber(r)
    \/ \E r \in Runs : SaveState(r, "reliable")

SpecRace == Init /\ [][NextRace]_vars

\* Invocations that do not overlap, started on any state document of the
\* first day.
InitFile ==
    /\ now = StartMinute
    /\ ticks = 0
    /\ configured \in BOOLEAN
    /\ file \in {AbsentFile, MalformedFile}
               \cup {DocFile(st) : st \in SUBSET ({DateOf(StartMinute)} \X Bands)}
    /\ lock = 0
    /\ pc = [r \in Runs |-> "idle"]
    /\ state = [r \in Runs |-> {}]
    /\ today = [r \in Runs |-> 0]
    /\ sent_green_today = [r \in Runs |-> FALSE]
    /\ sent_amber_today = [r \in Runs |-> FALSE]
    /\ met = [r \in Runs |-> EmptyForecast]
    /\ highs = [r \in Runs |-> <<>>]
    /\ flood_windows = [r \in Runs |-> <<>>]
    /\ twilight = [r \in Runs |-> <<>>]
    /\ windows = [r \in Runs |-> <<>>]
    /\ scored = [r \in Runs |-> <<>>]
    /\ pick_green = [r \in Runs |-> None]
    /\ pick_amber = [r \in Runs |-> None]
    /\ updated = [r \in Runs |-> FALSE]
    /\ pushlog = [r \in Runs |-> <<>>]

SpecFile == InitFile /\ [][NextSeq]_vars

\* One invocation, with every answer of the collaborators.
NextOne ==
    \/ Tick
    \/ LoadState(1)
    \/ ReadToday(1)
    \/ FetchForecast(1, "all")
    \/ FetchTides(1, "all")
    \/ Evaluate(1, "all")
    \/ AcquireLock(1)
    \/ DispatchGreen(1)
    \/ DispatchAmber(1)
    \/ SaveState(1, "failing")

SpecOne == Init /\ [][NextOne]_vars

\* ------------------------------------------------------------------ claims
Pushes(r) == {pushlog[r][i] : i \in 1..Len(pushlog[r])}
PushIndex == {ri \in Runs \X (1..Cardinality(Bands)) : ri[2] <= Len(pushlog[ri[1]])}
PushAt(ri) == pushlog[ri[1]][ri[2]]
Attempted(r, band) == \E e \in Pushes(r) : e.band = band
Acked(day, band) ==
    \E r \in Runs : [day |-> day, band |-> band, ok |-> TRUE] \in Pushes(r)
AckCount(day, band) ==
    Cardinality({ri \in PushIndex :
                   PushAt(ri) = [day |-> day, band |-> band, ok |-> TRUE]})
DaysSeen == 0..(DateOf(now) + 1)
Elems(seq) == {seq[i] : i \in 1..Len(seq)}

\* C1: overlapping invocations never both dispatch for the same (day,
\* band): no two different invocations both get a successful send_push for
\* the same day and band.
C1_NoDoubleDispatchAcrossRuns ==
    \A r1 \in Runs, r2 \in Runs :
        r1 # r2 =>
            \A e \in Pushes(r1) : e.ok => e \notin Pushes(r2)

\* C2: whatever the dispatches and the writes of the state file do, runs
\* that do not overlap dispatch at most one notification per band and day.
C2_AtMostOnePerBandPerDay ==
    \A d \in DaysSeen, b \in Bands : AckCount(d, b) <= 1

\* C3: a band is recorded as sent for a day in the persisted document only
\* if some invocation evaluated on that day got True from send_push for it.
C3_SentImpliesAck ==
    \A p \in LoadDoc(file) : Acked(p[1], p[2])

C3_Witness ==
    /\ LoadDoc(file) # {}
    /\ \E r \in Runs : pc[r] = "done" /\ Pushes(r) # {}

\* C4: an invocation whose loaded state records a band as sent for its
\* evaluation date makes no dispatch attempt for that band, even with a
\* candidate selected; and once both dispatch decisions are taken, a selected
\* candidate of the other band without a record has been attempted.
C4_SentBandSkippedOtherBandDispatched ==
    \A r \in Runs :
        /\ sent_green_today[r] => ~Attempted(r, "green")
        /\ sent_amber_today[r] => ~Attempted(r, "amber")
        /\ pc[r] = "save" =>
             /\ (sent_green_today[r] /\ pick_amber[r] # None /\ ~sent_amber_today[r])
                   => Attempted(r, "amber")
             /\ (sent_amber_today[r] /\ pick_green[r] # None /\ ~sent_green_today[r])
                   => Attempted(r, "green")

\* A first invocation found green recorded and dispatched amber; a later one
\* on the same day finds amber recorded, selects an amber candidate and
\* makes no attempt.
C4_Witness ==
    \E r1 \in Runs, r2 \in Runs :
        /\ pc[r1] = "done" /\ pc[r2] = "save"
        /\ [day |-> today[r2], band |-> "amber", ok |-> TRUE] \in Pushes(r1)
        /\ ~Attempted(r1, "green")
        /\ sent_green_today[r2] /\ sent_amber_today[r2]
        /\ pick_amber[r2] # None
        /\ pushlog[r2] = <<>>

\* C5: a failed dispatch leaves the band not sent; every band is attempted
\* at most once in an invocation; an invocation that loaded the band as not
\* sent and selected a candidate for it does attempt it (so the invocation
\* after a failure tries again); and an invocation without a successful
\* dispatch leaves the state file as it is.
C5_StateNow ==
    \A r \in Runs :
        /\ \A e \in Pushes(r) :
              (~e.ok /\ pc[r] \in {"amber", "save"}) => <<e.day, e.band>> \notin state[r]
        /\ \A b \in Bands :
              Cardinality({i \in 1..Len(pushlog[r]) : pushlog[r][i].band = b}) <= 1
        /\ pc[r] = "save" =>
              /\ (pick_green[r] # None /\ ~sent_green_today[r]) => Attempted(r, "green")
              /\ (pick_amber[r] # None /\ ~sent_amber_today[r]) => Attempted(r, "amber")
              /\ updated[r] <=> (\E e \in Pushes(r) : e.ok)

C5_Step ==
    file' # file =>
          \E r \in Runs : pc[r] = "save" /\ pc'[r] = "done" /\ \E e \in Pushes(r) : e.ok

C5_FailedDispatchRetriedNextRun == []C5_StateNow /\ [][C5_Step]_vars

\* Two invocations of one day: the first failed its amber dispatch, the
\* second attempted amber again and failed too; the file was never written.
C5_Witness ==
    \E r1 \in Runs, r2 \in Runs :
        /\ r1 # r2 /\ pc[r1] = "done" /\ pc[r2] = "save"
        /\ [day |-> today[r2], band |-> "amber", ok |-> FALSE] \in Pushes(r1)
        /\ pushlog[r2] = <<[day |-> today[r2], band |-> "amber", ok |-> FALSE]>>
        /\ ~updated[r2]
        /\ file = AbsentFile

\* C6: a flag persisted as sent is never reverted or dropped by a later
\* write of the whole document.
C6_SentNeverDropped ==
    [][\A p \in LoadDoc(file) : p \in LoadDoc(file')]_vars

\* C7: with an empty forecast and at least one candidate window, every
\* window is scored with the neutral defaults and the invocation goes on
\* to return 0.
C7_EmptyForecastScoredWithDefaults ==
    \A r \in Runs :
        (met[r].time = <<>> /\ windows[r] # <<>>) =>
            /\ pc[r] # "crashed"
            /\ Len(scored[r]) = Len(windows[r])
            /\ \A i \in 1..Len(scored[r]) :
                  /\ scored[r][i].sst = DefaultSst
                  /\ scored[r][i].wind_kt = DefaultWind * KtFactor
                  /\ scored[r][i].wind_dir = DefaultWindDir
                  /\ scored[r][i].wave_m = DefaultWave
                  /\ scored[r][i].wavep = DefaultWavep

\* C8: every candidate window is the intersection of a flood window with
\* the twilight window that labels it: the later start and the earlier end.
TwilightOf(r, day, label) ==
    IF label = "dawn" THEN twilight[r][day][1] ELSE twilight[r][day][2]

C8_WindowIsIntersection ==
    \A r \in Runs : \A w \in Elems(windows[r]) :
        \E fw \in Elems(flood_windows[r]) :
            /\ DateOf(fw[1]) \in DOMAIN twilight[r]
            /\ twilight[r][DateOf(fw[1])] # None
            /\ LET tw == TwilightOf(r, DateOf(fw[1]), w[3]) IN
               /\ w[1] = Max2(fw[1], tw[1])
               /\ w[2] = Min2(fw[2], tw[2])

\* C9: the window selected for a band belongs to the band, no window of the
\* band has a higher best score, none with the same best score starts
\* earlier; a band without candidates selects nothing.
InBand(rec, band) ==
    IF band = "green" THEN best_score(rec) >= 10
    ELSE 7 <= best_score(rec) /\ best_score(rec) <= 9

SelectionOK(sc, pick, band) ==
    /\ Len(pick) <= 1
    /\ pick = None <=> ~\E x \in Elems(sc) : InBand(x, band)
    /\ pick # None =>
          /\ pick[1] \in Elems(sc)
          /\ InBand(pick[1], band)
          /\ \A x \in Elems(sc) :
                InBand(x, band) =>
                   /\ best_score(x) <= best_score(pick[1])
                   /\ best_score(x) = best_score(pick[1]) => x.start >= pick[1].start

C9_BestWindowPerBand ==
    \A r \in Runs :
        pc[r] = "gate" =>
            /\ SelectionOK(scored[r], pick_green[r], "green")
            /\ SelectionOK(scored[r], pick_amber[r], "amber")

\* The first scored window is an amber candidate that is not selected, and
\* another amber candidate ties with the selected one but starts later.
C9_Witness ==
    \E r \in Runs :
        /\ pc[r] = "gate" /\ pick_amber[r] # None
        /\ InBand(scored[r][1], "amber")
        /\ best_score(scored[r][1]) < best_score(pick_amber[r][1])
        /\ \E x \in Elems(scored[r]) :
              /\ best_score(x) = best_score(pick_amber[r][1])
              /\ x.start > pick_amber[r][1].start

\* C10: both composite scores are integers in [3, 9]; so no window is a
\* GREEN candidate, no GREEN dispatch is attempted and no green flag is set.
C10_ScoresWithin3And9NoGreen ==
    /\ \A r \in Runs :
          /\ \A x \in Elems(scored[r]) :
                x.bass \in 3..9 /\ x.cod \in 3..9 /\ best_score(x) < 10
          /\ Greens(scored[r]) = <<>>
          /\ pick_green[r] = None
          /\ ~Attempted(r, "green")
          /\ \A p \in state[r] : p[2] # "green"
    /\ \A p \in LoadDoc(file) : p[2] # "green"

\* An invocation scored one window 9 for bass and one 9 for cod, the
\* highest composite scores, and selected an amber window.
C10_Witness ==
    \E r \in Runs :
        /\ pc[r] = "gate" /\ pick_amber[r] # None
        /\ \E x \in Elems(scored[r]) : x.bass = 9
        /\ \E x \in Elems(scored[r]) : x.cod = 9
====
